---- MODULE Spec2Model ----
(***************************************************************************)
(* Reconciliation adapters of provider-aws.                                *)
(*                                                                         *)
(* The IAMUserPolicyAttachment adapter (external.Observe / Create /        *)
(* Update / Delete of pkg/controller/identity/iamuserpolicyattachment) is  *)
(* translated from its source.  The helpers it calls that live outside the *)
(* controller file (awsclient.Wrap, resource.Ignore, iam.IsErrorNotFound,  *)
(* iam.LateInitializeUserPolicy, the condition mutators) and the IAM       *)
(* service behind the client facade are modelled from their contract.      *)
(***************************************************************************)
EXTENDS Naturals, Sequences, FiniteSets, TLC

(* ------------------------------ bounds --------------------------------- *)

\* Number of IAM user names the desired state may name.
NumUsers == 2

\* Number of managed-policy ARNs known to the model.
NumPolicies == 2

\* Largest number of attachments present at the provider before the run.
MaxPreAttached == 1

(* ------------------------------ values --------------------------------- *)

\* Go's nil (a nil pointer, a nil error).
Nil == "<nil>"

UserNames == <<"alice", "bob", "carol", "dave">>

ArnNames == <<"arn:A", "arn:B", "arn:C", "arn:D">>

Users == {UserNames[i] : i \in 1..NumUsers}

PolicyArns == {ArnNames[i] : i \in 1..NumPolicies}

\* The kinds of managed resource an adapter may be handed.
KindAttachment == "IAMUserPolicyAttachment"

KindRole == "IAMRole"

(* ------------------------ controller constants ------------------------- *)

errUnexpectedObject == "The managed resource is not an UserPolicyAttachment resource"

errGet == "failed to get UserPolicyAttachments for user"

errAttach == "failed to attach the policy to user"

errDetach == "failed to detach the policy to user"

errKubeUpdateFailed == "cannot late initialize UserPolicyAttachment"

(* ------------------------------ errors --------------------------------- *)

\* An error is the chain of its messages, outermost first; a nil error is the
\* empty chain.
NilError == <<>>

\* Error codes the IAM service answers with.
ErrCodeNoSuchEntityException == "NoSuchEntity"

ErrCodeInvalidInputException == "InvalidInput"

\* awserr.New(code, "", nil)
AwsErr(code) == <<code>>

\* Any failure that is no service error code (the tests' errBoom).
errBoom == <<"boom">>

\* errors.New(msg)
New(msg) == <<msg>>

\* iam.IsErrorNotFound: the facade's "not found" classification.
IsErrorNotFound(err) == err = AwsErr(ErrCodeNoSuchEntityException)

\* resource.Ignore(is, err): nil when the predicate accepts the error.
Ignore(isIgnored, err) == IF isIgnored THEN NilError ELSE err

\* awsclient.Wrap(err, msg): nil stays nil, anything else is wrapped with msg.
Wrap(err, msg) == IF err = NilError THEN NilError ELSE <<msg>> \o err

(* ----------------------------- conditions ------------------------------ *)

Available == [type |-> "Ready", status |-> "True", reason |-> "Available"]

Creating == [type |-> "Ready", status |-> "False", reason |-> "Creating"]

Deleting == [type |-> "Ready", status |-> "False", reason |-> "Deleting"]

\* Set by the scheduler, never by an adapter.
ReconcileSuccess == [type |-> "Synced", status |-> "True", reason |-> "ReconcileSuccess"]

\* ConditionedStatus.SetConditions: a condition of the same type is replaced
\* in place, a condition of a new type is appended.
SetConditions(conds, c) ==
  IF \E i \in 1..Len(conds) : conds[i].type = c.type
  THEN [i \in 1..Len(conds) |-> IF conds[i].type = c.type THEN c ELSE conds[i]]
  ELSE Append(conds, c)

\* aws.StringValue: a nil *string reads as the empty string.
StringValue(p) == IF p = Nil THEN "" ELSE p

\* awsclients.LateInitializeString
LateInitializeString(in, from) == IF in = "" /\ from # Nil THEN from ELSE in

\* iam.LateInitializeUserPolicy: fills the unset policy ARN from the observed
\* attached policy.
LateInitializeUserPolicy(params, policy) ==
  [params EXCEPT !.PolicyARN = LateInitializeString(@, policy.PolicyArn)]

(* ------------------------------ results -------------------------------- *)

\* managed.ExternalObservation
ExternalObservation(exists, upToDate) ==
  [ResourceExists |-> exists, ResourceUpToDate |-> upToDate]

ZeroObservation == ExternalObservation(FALSE, FALSE)

\* managed.ExternalCreation{} and managed.ExternalUpdate{}
ExternalCreation == [ConnectionDetails |-> Nil]

ExternalUpdate == [ConnectionDetails |-> Nil]

NoResult == [none |-> TRUE]

(* ------------------------- the provider (IAM) -------------------------- *)

\* What the service holds: the users that exist, the (user, policy ARN)
\* attachments, and per role name the role's configuration (<<>> when there
\* is no such role).
Provider(us, att, rs) == [users |-> us, attached |-> att, roles |-> rs]

\* The response of a request: an error (or nil), the output, the service after.
Response(err, out, prov) == [err |-> err, out |-> out, provider |-> prov]

NoOutput == [AttachedPolicies |-> <<>>]

\* The entries of a list in the order of ArnNames.
RECURSIVE PoliciesFrom(_, _, _)
PoliciesFrom(att, user, i) ==
  IF i > Len(ArnNames) THEN <<>>
  ELSE (IF <<user, ArnNames[i]>> \in att
        THEN <<[PolicyArn |-> ArnNames[i]]>> ELSE <<>>)
       \o PoliciesFrom(att, user, i + 1)

\* ListAttachedUserPoliciesRequest(...).Send: the policies attached to the
\* user.  nilEntry adds an entry that carries no ARN, at the front or the back.
ListAttachedUserPolicies(prov, userName, fault, nilEntry) ==
  IF fault # NilError THEN Response(fault, NoOutput, prov)
  ELSE IF userName \notin prov.users
  THEN Response(AwsErr(ErrCodeNoSuchEntityException), NoOutput, prov)
  ELSE LET listed == PoliciesFrom(prov.attached, userName, 1)
           extra == <<[PolicyArn |-> Nil]>>
       IN Response(NilError,
                   [AttachedPolicies |->
                      CASE nilEntry = "front" -> extra \o listed
                        [] nilEntry = "back" -> listed \o extra
                        [] OTHER -> listed],
                   prov)

\* AttachUserPolicyRequest(...).Send: attaching twice is accepted.
AttachUserPolicy(prov, userName, policyArn, fault) ==
  IF fault # NilError THEN Response(fault, NoOutput, prov)
  ELSE IF policyArn = ""
  THEN Response(AwsErr(ErrCodeInvalidInputException), NoOutput, prov)
  ELSE IF userName \notin prov.users
  THEN Response(AwsErr(ErrCodeNoSuchEntityException), NoOutput, prov)
  ELSE Response(NilError, NoOutput,
                [prov EXCEPT !.attached = @ \cup {<<userName, policyArn>>}])

\* DetachUserPolicyRequest(...).Send: detaching what is not attached is
\* answered with "no such entity".
DetachUserPolicy(prov, userName, policyArn, fault) ==
  IF fault # NilError THEN Response(fault, NoOutput, prov)
  ELSE IF policyArn = ""
  THEN Response(AwsErr(ErrCodeInvalidInputException), NoOutput, prov)
  ELSE IF <<userName, policyArn>> \notin prov.attached
  THEN Response(AwsErr(ErrCodeNoSuchEntityException), NoOutput, prov)
  ELSE Response(NilError, NoOutput,
                [prov EXCEPT !.attached = @ \ {<<userName, policyArn>>}])

\* One request as the adapter issued it: the operation, its input, the
\* conditions the object carried when the request was sent, and the error and
\* output the service answered with.
Call(api, input, conds, resp) ==
  [api |-> api, input |-> input, conditions |-> conds,
   err |-> resp.err, out |-> resp.out]

(* ----------------------------- invocations ---------------------------- *)

\* What one invocation of a lifecycle method yields: the object after, the
\* result and error returned, the provider requests and cluster-store
\* updates it issued (in order), and the service after.
Outcome(cr, result, err, calls, writes, prov) ==
  [mg |-> cr, result |-> result, err |-> err, calls |-> calls,
   writes |-> writes, provider |-> prov]

\* The cluster store's Update(ctx, cr) (e.kube.Update): the object written
\* and the error the store answered with.
KubeUpdate(cr, kubeFault) == [object |-> cr, err |-> kubeFault]

\* The smallest index of a non-empty set of indices.
Min(S) == CHOOSE i \in S : \A j \in S : i <= j

(* ------------------ the IAMUserPolicyAttachment adapter ---------------- *)

\* ObserveListFailed without the not-found exemption.
ObserveListFailedNoIgnore(cr, call, observed) ==
  Outcome(cr, ZeroObservation, Wrap(observed.err, errGet),
          <<call>>, <<>>, observed.provider)

\* ObserveListFailed returning the provider error as it came, untagged.
ObserveListFailedUntagged(cr, call, observed) ==
  Outcome(cr, ZeroObservation, Ignore(IsErrorNotFound(observed.err), observed.err),
          <<call>>, <<>>, observed.provider)

\* ObserveListFailed that marks the object as not ready when the list
\* request failed.
ObserveListFailedMarksUnavailable(cr, call, observed) ==
  Outcome([cr EXCEPT !.conditions =
             SetConditions(@, [type |-> "Ready", status |-> "False",
                               reason |-> "Unavailable"])],
          ZeroObservation,
          Wrap(Ignore(IsErrorNotFound(observed.err), observed.err), errGet),
          <<call>>, <<>>, observed.provider)

\* external.Observe, the list request failed: "not found" is no error.
ObserveListFailed(cr, call, observed) ==
  Outcome(cr, ZeroObservation,
          Wrap(Ignore(IsErrorNotFound(observed.err), observed.err), errGet),
          <<call>>, <<>>, observed.provider)

\* AttachedPolicyIndex without the ARN comparison: the first listed policy.
FirstPolicyIndex(policies, policyARN) == IF policies = <<>> THEN 0 ELSE 1

\* AttachedPolicyIndex that passes over entries without an ARN.
AttachedPolicyIndexSkipsNil(policies, policyARN) ==
  LET matching == {i \in 1..Len(policies) :
                     /\ policies[i].PolicyArn # Nil
                     /\ policyARN = policies[i].PolicyArn}
  IN IF matching = {} THEN 0 ELSE Min(matching)

\* external.Observe, the search of the listed policies: the index of the
\* first entry whose ARN is the desired one, 0 when there is none.
AttachedPolicyIndex(policies, policyARN) ==
  LET matching == {i \in 1..Len(policies) :
                     policyARN = StringValue(policies[i].PolicyArn)}
  IN IF matching = {} THEN 0 ELSE Min(matching)

\* ObserveAttached that records the status but sets no condition.
ObserveAttachedNoCondition(cr, attachedPolicyObject, call, observed, kubeFault) ==
  Outcome([cr EXCEPT !.atProvider = [AttachedPolicyARN |->
                                       StringValue(attachedPolicyObject.PolicyArn)]],
          ExternalObservation(TRUE, TRUE), NilError, <<call>>, <<>>, observed.provider)

\* ObserveAttached that writes the object to the cluster store whether or not
\* late initialization changed its parameters.
ObserveAttachedAlwaysWrites(cr, attachedPolicyObject, call, observed, kubeFault) ==
  LET initialized ==
        [cr EXCEPT !.spec = LateInitializeUserPolicy(@, attachedPolicyObject)]
      written == <<KubeUpdate(initialized, kubeFault)>>
  IN
  IF written[1].err # NilError
  THEN Outcome(initialized, ZeroObservation,
               Wrap(written[1].err, errKubeUpdateFailed),
               <<call>>, written, observed.provider)
  ELSE Outcome([initialized EXCEPT
                  !.conditions = SetConditions(@, Available),
                  !.atProvider = [AttachedPolicyARN |->
                                    StringValue(attachedPolicyObject.PolicyArn)]],
               ExternalObservation(TRUE, TRUE), NilError,
               <<call>>, written, observed.provider)

\* ObserveAttached that adds Available to the conditions the object carries
\* instead of replacing its readiness condition.
ObserveAttachedAppendsCondition(cr, attachedPolicyObject, call, observed, kubeFault) ==
  Outcome([cr EXCEPT
             !.conditions = Append(@, Available),
             !.atProvider = [AttachedPolicyARN |->
                               StringValue(attachedPolicyObject.PolicyArn)]],
          ExternalObservation(TRUE, TRUE), NilError, <<call>>, <<>>, observed.provider)

\* external.Observe, the attachment was found: late initialization, its
\* write to the cluster store when it changed the parameters, the Available
\* condition and the observed status.
ObserveAttached(cr, attachedPolicyObject, call, observed, kubeFault) ==
  LET current == cr.spec
      initialized ==
        [cr EXCEPT !.spec = LateInitializeUserPolicy(@, attachedPolicyObject)]
      written == IF current # initialized.spec
                 THEN <<KubeUpdate(initialized, kubeFault)>> ELSE <<>>
  IN
  IF written # <<>> /\ written[1].err # NilError
  THEN Outcome(initialized, ZeroObservation,
               Wrap(written[1].err, errKubeUpdateFailed),
               <<call>>, written, observed.provider)
  ELSE Outcome([initialized EXCEPT
                  !.conditions = SetConditions(@, Available),
                  !.atProvider = [AttachedPolicyARN |->
                                    StringValue(attachedPolicyObject.PolicyArn)]],
               ExternalObservation(TRUE, TRUE), NilError,
               <<call>>, written, observed.provider)

\* external.Observe
Observe(mgd, prov, fault, nilEntry, kubeFault) ==
  IF mgd.kind # KindAttachment
  THEN Outcome(mgd, ZeroObservation, New(errUnexpectedObject), <<>>, <<>>, prov)
  ELSE
    LET cr == mgd
        observed == ListAttachedUserPolicies(prov, cr.spec.UserName, fault, nilEntry)
        call == Call("ListAttachedUserPolicies", [UserName |-> cr.spec.UserName],
                     cr.conditions, observed)
    IN
    IF observed.err # NilError
    THEN ObserveListFailed(cr, call, observed)
    ELSE
      LET policies == observed.out.AttachedPolicies
          i == AttachedPolicyIndex(policies, cr.spec.PolicyARN)
      IN
      IF i = 0
      THEN Outcome(cr, ExternalObservation(FALSE, FALSE), NilError,
                   <<call>>, <<>>, observed.provider)
      ELSE ObserveAttached(cr, policies[i], call, observed, kubeFault)

\* Create that sends the attach request a second time when the first failed.
CreateRetriesOnce(mgd, prov, fault) ==
  IF mgd.kind # KindAttachment
  THEN Outcome(mgd, ExternalCreation, New(errUnexpectedObject), <<>>, <<>>, prov)
  ELSE
    LET cr == [mgd EXCEPT !.conditions = SetConditions(@, Creating)]
        input == [PolicyArn |-> cr.spec.PolicyARN, UserName |-> cr.spec.UserName]
        sent == AttachUserPolicy(prov, cr.spec.UserName, cr.spec.PolicyARN, fault)
        call == Call("AttachUserPolicy", input, cr.conditions, sent)
        again == AttachUserPolicy(sent.provider, cr.spec.UserName, cr.spec.PolicyARN,
                                  NilError)
    IN IF sent.err = NilError
       THEN Outcome(cr, ExternalCreation, NilError, <<call>>, <<>>, sent.provider)
       ELSE Outcome(cr, ExternalCreation, Wrap(again.err, errAttach),
                    <<call, Call("AttachUserPolicy", input, cr.conditions, again)>>,
                    <<>>, again.provider)

\* Create that marks the object Creating only once the request has returned.
CreateMarksAfterCall(mgd, prov, fault) ==
  IF mgd.kind # KindAttachment
  THEN Outcome(mgd, ExternalCreation, New(errUnexpectedObject), <<>>, <<>>, prov)
  ELSE
    LET sent == AttachUserPolicy(prov, mgd.spec.UserName, mgd.spec.PolicyARN, fault)
        call == Call("AttachUserPolicy",
                     [PolicyArn |-> mgd.spec.PolicyARN, UserName |-> mgd.spec.UserName],
                     mgd.conditions, sent)
    IN Outcome([mgd EXCEPT !.conditions = SetConditions(@, Creating)],
               ExternalCreation, Wrap(sent.err, errAttach),
               <<call>>, <<>>, sent.provider)

\* Create that exempts "not found" the way Observe and Delete do.
CreateIgnoresNotFound(mgd, prov, fault) ==
  IF mgd.kind # KindAttachment
  THEN Outcome(mgd, ExternalCreation, New(errUnexpectedObject), <<>>, <<>>, prov)
  ELSE
    LET cr == [mgd EXCEPT !.conditions = SetConditions(@, Creating)]
        sent == AttachUserPolicy(prov, cr.spec.UserName, cr.spec.PolicyARN, fault)
        call == Call("AttachUserPolicy",
                     [PolicyArn |-> cr.spec.PolicyARN, UserName |-> cr.spec.UserName],
                     cr.conditions, sent)
    IN Outcome(cr, ExternalCreation,
               Wrap(Ignore(IsErrorNotFound(sent.err), sent.err), errAttach),
               <<call>>, <<>>, sent.provider)

\* Create that marks the object Creating and reports success without sending
\* the attach request.
CreateSkipsRequest(mgd, prov, fault) ==
  IF mgd.kind # KindAttachment
  THEN Outcome(mgd, ExternalCreation, New(errUnexpectedObject), <<>>, <<>>, prov)
  ELSE Outcome([mgd EXCEPT !.conditions = SetConditions(@, Creating)],
               ExternalCreation, NilError, <<>>, <<>>, prov)

\* external.Create
Create(mgd, prov, fault) ==
  IF mgd.kind # KindAttachment
  THEN Outcome(mgd, ExternalCreation, New(errUnexpectedObject), <<>>, <<>>, prov)
  ELSE
    LET cr == [mgd EXCEPT !.conditions = SetConditions(@, Creating)]
        sent == AttachUserPolicy(prov, cr.spec.UserName, cr.spec.PolicyARN, fault)
        call == Call("AttachUserPolicy",
                     [PolicyArn |-> cr.spec.PolicyARN, UserName |-> cr.spec.UserName],
                     cr.conditions, sent)
    IN Outcome(cr, ExternalCreation, Wrap(sent.err, errAttach),
               <<call>>, <<>>, sent.provider)

\* Update that attaches the desired policy again.
UpdateReattaches(mgd, prov) ==
  IF mgd.kind # KindAttachment
  THEN Outcome(mgd, ExternalUpdate, NilError, <<>>, <<>>, prov)
  ELSE
    LET sent == AttachUserPolicy(prov, mgd.spec.UserName, mgd.spec.PolicyARN, NilError)
        call == Call("AttachUserPolicy",
                     [PolicyArn |-> mgd.spec.PolicyARN, UserName |-> mgd.spec.UserName],
                     mgd.conditions, sent)
    IN Outcome(mgd, ExternalUpdate, NilError, <<call>>, <<>>, sent.provider)

\* external.Update
Update(mgd, prov) ==
  Outcome(mgd, ExternalUpdate, NilError, <<>>, <<>>, prov)

\* Delete that marks the object Deleting before it checks the object's kind.
DeleteMarksBeforeTypeCheck(mgd, prov, fault) ==
  LET cr == [mgd EXCEPT !.conditions = SetConditions(@, Deleting)]
  IN
  IF mgd.kind # KindAttachment
  THEN Outcome(cr, NoResult, New(errUnexpectedObject), <<>>, <<>>, prov)
  ELSE
    LET sent == DetachUserPolicy(prov, cr.spec.UserName, cr.spec.PolicyARN, fault)
        call == Call("DetachUserPolicy",
                     [PolicyArn |-> cr.spec.PolicyARN, UserName |-> cr.spec.UserName],
                     cr.conditions, sent)
    IN Outcome(cr, NoResult,
               Wrap(Ignore(IsErrorNotFound(sent.err), sent.err), errDetach),
               <<call>>, <<>>, sent.provider)

\* Delete without the not-found exemption.
DeleteNoIgnore(mgd, prov, fault) ==
  IF mgd.kind # KindAttachment
  THEN Outcome(mgd, NoResult, New(errUnexpectedObject), <<>>, <<>>, prov)
  ELSE
    LET cr == [mgd EXCEPT !.conditions = SetConditions(@, Deleting)]
        sent == DetachUserPolicy(prov, cr.spec.UserName, cr.spec.PolicyARN, fault)
        call == Call("DetachUserPolicy",
                     [PolicyArn |-> cr.spec.PolicyARN, UserName |-> cr.spec.UserName],
                     cr.conditions, sent)
    IN Outcome(cr, NoResult, Wrap(sent.err, errDetach),
               <<call>>, <<>>, sent.provider)

\* Delete that marks the object Deleting and reports success without sending
\* the detach request.
DeleteSkipsRequest(mgd, prov, fault) ==
  IF mgd.kind # KindAttachment
  THEN Outcome(mgd, NoResult, New(errUnexpectedObject), <<>>, <<>>, prov)
  ELSE Outcome([mgd EXCEPT !.conditions = SetConditions(@, Deleting)],
               NoResult, NilError, <<>>, <<>>, prov)

\* Delete that detaches every policy of the user, not only the desired one.
DeleteDetachesAll(mgd, prov, fault) ==
  IF mgd.kind # KindAttachment
  THEN Outcome(mgd, NoResult, New(errUnexpectedObject), <<>>, <<>>, prov)
  ELSE
    LET cr == [mgd EXCEPT !.conditions = SetConditions(@, Deleting)]
        sent == DetachUserPolicy(prov, cr.spec.UserName, cr.spec.PolicyARN, fault)
        call == Call("DetachUserPolicy",
                     [PolicyArn |-> cr.spec.PolicyARN, UserName |-> cr.spec.UserName],
                     cr.conditions, sent)
    IN Outcome(cr, NoResult,
               Wrap(Ignore(IsErrorNotFound(sent.err), sent.err), errDetach),
               <<call>>, <<>>,
               IF sent.err # NilError THEN sent.provider
               ELSE [sent.provider EXCEPT
                       !.attached = {at \in @ : at[1] # cr.spec.UserName}])

\* Delete that reports success whatever the detach request answered.
DeleteSwallowsAll(mgd, prov, fault) ==
  IF mgd.kind # KindAttachment
  THEN Outcome(mgd, NoResult, New(errUnexpectedObject), <<>>, <<>>, prov)
  ELSE
    LET cr == [mgd EXCEPT !.conditions = SetConditions(@, Deleting)]
        sent == DetachUserPolicy(prov, cr.spec.UserName, cr.spec.PolicyARN, fault)
        call == Call("DetachUserPolicy",
                     [PolicyArn |-> cr.spec.PolicyARN, UserName |-> cr.spec.UserName],
                     cr.conditions, sent)
    IN Outcome(cr, NoResult, NilError, <<call>>, <<>>, sent.provider)

\* external.Delete
Delete(mgd, prov, fault) ==
  IF mgd.kind # KindAttachment
  THEN Outcome(mgd, NoResult, New(errUnexpectedObject), <<>>, <<>>, prov)
  ELSE
    LET cr == [mgd EXCEPT !.conditions = SetConditions(@, Deleting)]
        sent == DetachUserPolicy(prov, cr.spec.UserName, cr.spec.PolicyARN, fault)
        call == Call("DetachUserPolicy",
                     [PolicyArn |-> cr.spec.PolicyARN, UserName |-> cr.spec.UserName],
                     cr.conditions, sent)
    IN Outcome(cr, NoResult,
               Wrap(Ignore(IsErrorNotFound(sent.err), sent.err), errDetach),
               <<call>>, <<>>, sent.provider)

(* --------------------------- the IAMRole adapter ----------------------- *)

\* The adapter of a resource kind with a comparison policy and an update
\* path, following the adapter contract and the expectations of the role
\* controller's tests (TestObserve, TestCreate, TestUpdate, TestDelete).

roleErrUnexpectedObject == "unexpected object kind"

roleErrGet == "failed to get"

roleErrCreate == "failed to create"

roleErrUpdate == "failed to update"

roleErrDelete == "failed to delete"

roleErrKubeUpdateFailed == "cannot late initialize"

ErrCodeEntityAlreadyExistsException == "EntityAlreadyExists"

\* awsiam.Role: the attributes and the trust-policy document of a role.
Role(description, document) ==
  [Description |-> description, AssumeRolePolicyDocument |-> document]

\* awsclient.CompactAndEscapeJSON: documents that differ in whitespace only
\* have one compact form.
CompactAndEscapeJSON(doc) == IF doc = "{ a }" THEN "{a}" ELSE doc

\* GetRoleRequest(...).Send
GetRole(prov, roleName, fault) ==
  IF fault # NilError THEN Response(fault, [Role |-> <<>>], prov)
  ELSE IF roleName \notin DOMAIN prov.roles \/ prov.roles[roleName] = <<>>
  THEN Response(AwsErr(ErrCodeNoSuchEntityException), [Role |-> <<>>], prov)
  ELSE Response(NilError, [Role |-> prov.roles[roleName]], prov)

\* CreateRoleRequest(...).Send
CreateRole(prov, roleName, params, fault) ==
  IF fault # NilError THEN Response(fault, NoOutput, prov)
  ELSE IF roleName \notin DOMAIN prov.roles
  THEN Response(AwsErr(ErrCodeInvalidInputException), NoOutput, prov)
  ELSE IF prov.roles[roleName] # <<>>
  THEN Response(AwsErr(ErrCodeEntityAlreadyExistsException), NoOutput, prov)
  ELSE Response(NilError, NoOutput,
                [prov EXCEPT !.roles[roleName] =
                   <<Role(params.Description,
                          CompactAndEscapeJSON(params.AssumeRolePolicyDocument))>>])

\* UpdateRoleRequest(...).Send: the base attributes of the role.
UpdateRole(prov, roleName, description, fault) ==
  IF fault # NilError THEN Response(fault, NoOutput, prov)
  ELSE IF roleName \notin DOMAIN prov.roles \/ prov.roles[roleName] = <<>>
  THEN Response(AwsErr(ErrCodeNoSuchEntityException), NoOutput, prov)
  ELSE Response(NilError, NoOutput,
                [prov EXCEPT !.roles[roleName][1].Description = description])

\* UpdateAssumeRolePolicyRequest(...).Send: the trust-policy document.
UpdateAssumeRolePolicy(prov, roleName, document, fault) ==
  IF fault # NilError THEN Response(fault, NoOutput, prov)
  ELSE IF roleName \notin DOMAIN prov.roles \/ prov.roles[roleName] = <<>>
  THEN Response(AwsErr(ErrCodeNoSuchEntityException), NoOutput, prov)
  ELSE Response(NilError, NoOutput,
                [prov EXCEPT !.roles[roleName][1].AssumeRolePolicyDocument =
                               CompactAndEscapeJSON(document)])

\* DeleteRoleRequest(...).Send
DeleteRole(prov, roleName, fault) ==
  IF fault # NilError THEN Response(fault, NoOutput, prov)
  ELSE IF roleName \notin DOMAIN prov.roles \/ prov.roles[roleName] = <<>>
  THEN Response(AwsErr(ErrCodeNoSuchEntityException), NoOutput, prov)
  ELSE Response(NilError, NoOutput, [prov EXCEPT !.roles[roleName] = <<>>])

\* Late initialization: an unset optional field takes the observed value, a
\* set one is never overwritten.
LateInitializeRole(params, role) ==
  [params EXCEPT !.Description = IF @ = Nil THEN role.Description ELSE @]

\* The comparison policy: attributes by value, documents in compact form.
AttributesUpToDate(params, role) ==
  StringValue(params.Description) = StringValue(role.Description)

DocumentUpToDate(params, role) ==
  CompactAndEscapeJSON(params.AssumeRolePolicyDocument)
    = CompactAndEscapeJSON(role.AssumeRolePolicyDocument)

IsRoleUpToDate(params, role) ==
  AttributesUpToDate(params, role) /\ DocumentUpToDate(params, role)

\* Observe of the role adapter
RoleObserve(mgd, prov, fault, kubeFault) ==
  IF mgd.kind # KindRole
  THEN Outcome(mgd, ZeroObservation, New(roleErrUnexpectedObject), <<>>, <<>>, prov)
  ELSE
    LET cr == mgd
        observed == GetRole(prov, cr.externalName, fault)
        call == Call("GetRole", [RoleName |-> cr.externalName], cr.conditions,
                     observed)
    IN
    IF observed.err # NilError
    THEN Outcome(cr, ZeroObservation,
                 Wrap(Ignore(IsErrorNotFound(observed.err), observed.err), roleErrGet),
                 <<call>>, <<>>, observed.provider)
    ELSE
      LET role == observed.out.Role[1]
          current == cr.spec
          initialized == [cr EXCEPT !.spec = LateInitializeRole(@, role)]
          written == IF current # initialized.spec
                     THEN <<KubeUpdate(initialized, kubeFault)>> ELSE <<>>
      IN
      IF written # <<>> /\ written[1].err # NilError
      THEN Outcome(initialized, ZeroObservation,
                   Wrap(written[1].err, roleErrKubeUpdateFailed),
                   <<call>>, written, observed.provider)
      ELSE Outcome([initialized EXCEPT !.conditions = SetConditions(@, Available)],
                   ExternalObservation(TRUE, IsRoleUpToDate(initialized.spec, role)),
                   NilError, <<call>>, written, observed.provider)

\* Create of the role adapter
RoleCreate(mgd, prov, fault) ==
  IF mgd.kind # KindRole
  THEN Outcome(mgd, ExternalCreation, New(roleErrUnexpectedObject), <<>>, <<>>, prov)
  ELSE
    LET cr == [mgd EXCEPT !.conditions = SetConditions(@, Creating)]
        sent == CreateRole(prov, cr.externalName, cr.spec, fault)
        call == Call("CreateRole", [RoleName |-> cr.externalName], cr.conditions, sent)
    IN Outcome(cr, ExternalCreation, Wrap(sent.err, roleErrCreate),
               <<call>>, <<>>, sent.provider)

\* RoleUpdate that carries on with the trust-policy document after the
\* attributes could not be updated, and reports the first failure.
RoleUpdateKeepsGoing(mgd, prov, getFault, roleFault, policyFault) ==
  IF mgd.kind # KindRole
  THEN Outcome(mgd, ExternalUpdate, New(roleErrUnexpectedObject), <<>>, <<>>, prov)
  ELSE
    LET cr == mgd
        input == [RoleName |-> cr.externalName]
        observed == GetRole(prov, cr.externalName, getFault)
        getCall == Call("GetRole", input, cr.conditions, observed)
    IN
    IF observed.err # NilError
    THEN Outcome(cr, ExternalUpdate, Wrap(observed.err, roleErrUpdate),
                 <<getCall>>, <<>>, observed.provider)
    ELSE
      LET role == observed.out.Role[1]
          afterRole == UpdateRole(prov, cr.externalName, cr.spec.Description,
                                  roleFault)
          afterPolicy == UpdateAssumeRolePolicy(afterRole.provider, cr.externalName,
                                                cr.spec.AssumeRolePolicyDocument,
                                                policyFault)
      IN Outcome(cr, ExternalUpdate,
                 Wrap(IF afterRole.err # NilError THEN afterRole.err
                      ELSE afterPolicy.err, roleErrUpdate),
                 <<getCall, Call("UpdateRole", input, cr.conditions, afterRole),
                   Call("UpdateAssumeRolePolicy", input, cr.conditions, afterPolicy)>>,
                 <<>>, afterPolicy.provider)

\* Update of the role adapter: one call per differing sub-resource, the
\* attributes first, stopping at the first failure.
RoleUpdate(mgd, prov, getFault, roleFault, policyFault) ==
  IF mgd.kind # KindRole
  THEN Outcome(mgd, ExternalUpdate, New(roleErrUnexpectedObject), <<>>, <<>>, prov)
  ELSE
    LET cr == mgd
        input == [RoleName |-> cr.externalName]
        observed == GetRole(prov, cr.externalName, getFault)
        getCall == Call("GetRole", input, cr.conditions, observed)
    IN
    IF observed.err # NilError
    THEN Outcome(cr, ExternalUpdate, Wrap(observed.err, roleErrUpdate),
                 <<getCall>>, <<>>, observed.provider)
    ELSE
      LET role == observed.out.Role[1]
          needRole == ~AttributesUpToDate(cr.spec, role)
          needPolicy == ~DocumentUpToDate(cr.spec, role)
          afterRole == IF needRole
                       THEN UpdateRole(prov, cr.externalName, cr.spec.Description,
                                       roleFault)
                       ELSE Response(NilError, NoOutput, prov)
          roleCalls == IF needRole
                       THEN <<getCall, Call("UpdateRole", input, cr.conditions, afterRole)>>
                       ELSE <<getCall>>
      IN
      IF afterRole.err # NilError
      THEN Outcome(cr, ExternalUpdate, Wrap(afterRole.err, roleErrUpdate),
                   roleCalls, <<>>, afterRole.provider)
      ELSE IF ~needPolicy
      THEN Outcome(cr, ExternalUpdate, NilError, roleCalls, <<>>, afterRole.provider)
      ELSE
        LET afterPolicy == UpdateAssumeRolePolicy(afterRole.provider, cr.externalName,
                                                  cr.spec.AssumeRolePolicyDocument,
                                                  policyFault)
        IN Outcome(cr, ExternalUpdate, Wrap(afterPolicy.err, roleErrUpdate),
                   Append(roleCalls,
                          Call("UpdateAssumeRolePolicy", input, cr.conditions,
                               afterPolicy)),
                   <<>>, afterPolicy.provider)

\* Delete of the role adapter
RoleDelete(mgd, prov, fault) ==
  IF mgd.kind # KindRole
  THEN Outcome(mgd, NoResult, New(roleErrUnexpectedObject), <<>>, <<>>, prov)
  ELSE
    LET cr == [mgd EXCEPT !.conditions = SetConditions(@, Deleting)]
        sent == DeleteRole(prov, cr.externalName, fault)
        call == Call("DeleteRole", [RoleName |-> cr.externalName], cr.conditions, sent)
    IN Outcome(cr, NoResult,
               Wrap(Ignore(IsErrorNotFound(sent.err), sent.err), roleErrDelete),
               <<call>>, <<>>, sent.provider)

(* ------------- the generated deep copies of the Secret types ----------- *)

\* Memory is a sequence of cells; a pointer, a slice and a map are the
\* address of the cell that holds what they point to, 0 when nil.  A cell
\* holds the kind of its value, the value (for a struct, its fields; for a
\* slice, its elements) and whether it was written to since it was made.
Cell(kind, v) == [kind |-> kind, v |-> v, written |-> FALSE]

\* What an allocating step yields: the memory after it and the new pointer.
Allocated(h, p) == [heap |-> h, ptr |-> p]

\* What DeepCopyInto yields: the memory after it and the struct written to out.
Copied(h, out) == [heap |-> h, out |-> out]

\* new(T) followed by the assignment of its contents.
Alloc(h, cell) == Allocated(Append(h, cell), Len(h) + 1)

\* out := new(T); in.DeepCopyInto(out): the new struct takes what
\* DeepCopyInto wrote, in a cell of the kind of the one copied.
AllocCopied(c, cell) == Alloc(c.heap, [cell EXCEPT !.v = c.out])

\* out.F = p, for the pointer p an allocating step yielded.
Put(c, f, a) == Copied(a.heap, [c.out EXCEPT ![f] = a.ptr])

\* What in.F.DeepCopyInto(&out.F) leaves in out.F.
PutStruct(c, f, r) == Copied(r.heap, [c.out EXCEPT ![f] = r.out])

\* if in.F != nil { *out = new(T); **out = **in }: a pointer to a value
\* without pointers of its own (string, bool, int64, v1.Reference,
\* v1.SecretReference).
CopyValue(h, in) == IF in = 0 THEN Allocated(h, 0) ELSE Alloc(h, h[in])

\* CopyTags that hands the copy the original's slice.
CopyTagsShared(h, in) == Allocated(h, in)

\* if in.Tags != nil { *out = make([]Tag, len(*in)); copy(*out, *in) }
CopyTags(h, in) ==
  IF in = 0 THEN Allocated(h, 0)
  ELSE Alloc(h, [h[in] EXCEPT !.v = [i \in 1..Len(h[in].v) |-> h[in].v[i]]])

\* metav1.Time.DeepCopy: a new Time of the same instant, nil for nil.
TimeDeepCopy(h, in) == IF in = 0 THEN Allocated(h, 0) ELSE Alloc(h, h[in])

\* v1.Selector.DeepCopyInto: MatchLabels (a map) and MatchControllerRef
\* (*bool) are copied into cells of their own.
SelectorDeepCopyInto(h, in) ==
  LET labels == CopyValue(h, in.MatchLabels)
      ref == CopyValue(labels.heap, in.MatchControllerRef)
  IN Copied(ref.heap, [in EXCEPT !.MatchLabels = labels.ptr,
                                 !.MatchControllerRef = ref.ptr])

\* SecretSelector.DeepCopyInto
SecretSelectorDeepCopyInto(h, in) ==
  Put(Copied(h, in), "SecretReference", CopyValue(h, in.SecretReference))

\* if in.KmsKeySelector != nil { *out = new(v1.Selector);
\* (*in).DeepCopyInto(*out) }
CopySelector(h, in) ==
  IF in = 0 THEN Allocated(h, 0)
  ELSE AllocCopied(SelectorDeepCopyInto(h, h[in].v), h[in])

\* if in.SecretRef != nil { *out = new(SecretSelector);
\* (*in).DeepCopyInto(*out) }
CopySecretSelector(h, in) ==
  IF in = 0 THEN Allocated(h, 0)
  ELSE AllocCopied(SecretSelectorDeepCopyInto(h, h[in].v), h[in])

\* SecretParameters.DeepCopyInto: *out = *in, then field by field in the
\* order of the source.
SecretParametersDeepCopyInto(h, in) ==
  LET description == CopyValue(h, in.Description)
      kmsKeyID == CopyValue(description.heap, in.KmsKeyID)
      kmsKeyRef == CopyValue(kmsKeyID.heap, in.KmsKeyRef)
      kmsKeySelector == CopySelector(kmsKeyRef.heap, in.KmsKeySelector)
      secretRef == CopySecretSelector(kmsKeySelector.heap, in.SecretRef)
      force == CopyValue(secretRef.heap, in.ForceDeleteWithoutRecovery)
      window == CopyValue(force.heap, in.RecoveryWindowInDays)
      tags == CopyTags(window.heap, in.Tags)
  IN Copied(tags.heap,
            [in EXCEPT !.Description = description.ptr,
                       !.KmsKeyID = kmsKeyID.ptr,
                       !.KmsKeyRef = kmsKeyRef.ptr,
                       !.KmsKeySelector = kmsKeySelector.ptr,
                       !.SecretRef = secretRef.ptr,
                       !.ForceDeleteWithoutRecovery = force.ptr,
                       !.RecoveryWindowInDays = window.ptr,
                       !.Tags = tags.ptr])

\* SecretObservation.DeepCopyInto
SecretObservationDeepCopyInto(h, in) ==
  LET created == TimeDeepCopy(h, in.CreatedDate)
      deleted == TimeDeepCopy(created.heap, in.DeletedDate)
      deletion == TimeDeepCopy(deleted.heap, in.DeletionDate)
  IN Copied(deletion.heap,
            [in EXCEPT !.CreatedDate = created.ptr,
                       !.DeletedDate = deleted.ptr,
                       !.DeletionDate = deletion.ptr])

\* v1.ResourceSpec.DeepCopyInto: the provider config reference is copied
\* into a cell of its own.
ResourceSpecDeepCopyInto(h, in) ==
  Put(Copied(h, in), "ProviderConfigReference",
      CopyValue(h, in.ProviderConfigReference))

\* v1.ResourceStatus.DeepCopyInto: the conditions are copied into a slice of
\* their own.
ResourceStatusDeepCopyInto(h, in) ==
  Put(Copied(h, in), "Conditions", CopyValue(h, in.Conditions))

\* metav1.ObjectMeta.DeepCopyInto: the labels are copied into a map of their
\* own.
ObjectMetaDeepCopyInto(h, in) ==
  Put(Copied(h, in), "Labels", CopyValue(h, in.Labels))

\* metav1.ListMeta.DeepCopyInto
ListMetaDeepCopyInto(h, in) ==
  Put(Copied(h, in), "RemainingItemCount", CopyValue(h, in.RemainingItemCount))

\* SecretSpec.DeepCopyInto
SecretSpecDeepCopyInto(h, in) ==
  LET resourceSpec == ResourceSpecDeepCopyInto(h, in.ResourceSpec)
      forProvider == SecretParametersDeepCopyInto(resourceSpec.heap, in.ForProvider)
  IN Copied(forProvider.heap,
            [in EXCEPT !.ResourceSpec = resourceSpec.out,
                       !.ForProvider = forProvider.out])

\* SecretStatus.DeepCopyInto
SecretStatusDeepCopyInto(h, in) ==
  LET resourceStatus == ResourceStatusDeepCopyInto(h, in.ResourceStatus)
      atProvider == SecretObservationDeepCopyInto(resourceStatus.heap, in.AtProvider)
  IN Copied(atProvider.heap,
            [in EXCEPT !.ResourceStatus = resourceStatus.out,
                       !.AtProvider = atProvider.out])

\* Secret.DeepCopyInto
SecretDeepCopyInto(h, in) ==
  LET objectMeta == ObjectMetaDeepCopyInto(h, in.ObjectMeta)
      spec == SecretSpecDeepCopyInto(objectMeta.heap, in.Spec)
      status == SecretStatusDeepCopyInto(spec.heap, in.Status)
  IN Copied(status.heap,
            [in EXCEPT !.TypeMeta = in.TypeMeta,
                       !.ObjectMeta = objectMeta.out,
                       !.Spec = spec.out,
                       !.Status = status.out])

\* SecretList.DeepCopyInto, the loop over the items from index i on: each
\* item is deep-copied into its place in the new slice.
RECURSIVE CopyItemsFrom(_, _)
CopyItemsFrom(c, i) ==
  IF i > Len(c.out) THEN c
  ELSE CopyItemsFrom(PutStruct(c, i, SecretDeepCopyInto(c.heap, c.out[i])), i + 1)

\* if in.Items != nil { *out = make([]Secret, len(*in)); for i := range *in
\* { (*in)[i].DeepCopyInto(&(*out)[i]) } }
CopyItems(h, in) ==
  IF in = 0 THEN Allocated(h, 0)
  ELSE AllocCopied(CopyItemsFrom(Copied(h, h[in].v), 1), h[in])

\* SecretList.DeepCopyInto
SecretListDeepCopyInto(h, in) ==
  LET listMeta == ListMetaDeepCopyInto(h, in.ListMeta)
      items == CopyItems(listMeta.heap, in.Items)
  IN Copied(items.heap,
            [in EXCEPT !.TypeMeta = in.TypeMeta,
                       !.ListMeta = listMeta.out,
                       !.Items = items.ptr])

\* DeepCopyInto of the struct in a cell, by the type of the struct.
DeepCopyInto(h, cell) ==
  CASE cell.kind = "Secret" -> SecretDeepCopyInto(h, cell.v)
    [] cell.kind = "SecretList" -> SecretListDeepCopyInto(h, cell.v)
    [] cell.kind = "SecretSpec" -> SecretSpecDeepCopyInto(h, cell.v)
    [] cell.kind = "SecretStatus" -> SecretStatusDeepCopyInto(h, cell.v)
    [] cell.kind = "SecretParameters" -> SecretParametersDeepCopyInto(h, cell.v)
    [] cell.kind = "SecretObservation" -> SecretObservationDeepCopyInto(h, cell.v)
    [] cell.kind = "SecretSelector" -> SecretSelectorDeepCopyInto(h, cell.v)

\* T.DeepCopy, for each of the seven types T: if in == nil { return nil };
\* out := new(T); in.DeepCopyInto(out); return out
DeepCopy(h, in) ==
  IF in = 0 THEN Allocated(h, 0)
  ELSE AllocCopied(DeepCopyInto(h, h[in]), h[in])

(* ----------------- values handed to the deep copies -------------------- *)

\* A value is written down with each pointer, slice and map either absent,
\* <<>>, or present, <<x>>, and laid out in memory cell by cell.
MaxTags == 1

MaxItems == 2

Opt(S) == {<<>>} \cup {<<x>> : x \in S}

\* The sequences over S of at most n elements.
SeqUpTo(S, n) == UNION {[1..k -> S] : k \in 0..n}

Tags == SeqUpTo({[Key |-> "k", Value |-> "v"]}, MaxTags)

SelectorValues ==
  [MatchLabels : Opt({"label"}), MatchControllerRef : Opt({TRUE})]

SecretSelectorValues ==
  [SecretReference : Opt({[Name |-> "n", Namespace |-> "ns"]}), Key : {"key"}]

SecretParametersValues ==
  [Description : Opt({"description"}),
   KmsKeyID : Opt({"key id"}),
   KmsKeyRef : Opt({[Name |-> "key"]}),
   KmsKeySelector : Opt(SelectorValues),
   SecretRef : Opt(SecretSelectorValues),
   ForceDeleteWithoutRecovery : Opt({TRUE}),
   RecoveryWindowInDays : Opt({7}),
   Tags : Opt(Tags)]

SecretObservationValues ==
  [CreatedDate : Opt({"created"}), DeletedDate : Opt({"deleted"}),
   DeletionDate : Opt({"deletion"})]

\* Parameters with nothing set, and with everything set.
NoParameters ==
  [Description |-> <<>>, KmsKeyID |-> <<>>, KmsKeyRef |-> <<>>,
   KmsKeySelector |-> <<>>, SecretRef |-> <<>>,
   ForceDeleteWithoutRecovery |-> <<>>, RecoveryWindowInDays |-> <<>>,
   Tags |-> <<>>]

FullParameters ==
  [Description |-> <<"description">>, KmsKeyID |-> <<"key id">>,
   KmsKeyRef |-> <<[Name |-> "key"]>>,
   KmsKeySelector |-> <<[MatchLabels |-> <<"label">>,
                         MatchControllerRef |-> <<TRUE>>]>>,
   SecretRef |-> <<[SecretReference |-> <<[Name |-> "n", Namespace |-> "ns"]>>,
                    Key |-> "key"]>>,
   ForceDeleteWithoutRecovery |-> <<TRUE>>, RecoveryWindowInDays |-> <<7>>,
   Tags |-> <<<<[Key |-> "k", Value |-> "v"]>>>>]

ResourceSpecValues == [ProviderConfigReference : Opt({[Name |-> "default"]})]

ResourceStatusValues == [Conditions : Opt({<<"Ready">>})]

SecretSpecValues ==
  [ResourceSpec : ResourceSpecValues, ForProvider : {NoParameters, FullParameters}]

SecretStatusValues ==
  [ResourceStatus : ResourceStatusValues, AtProvider : SecretObservationValues]

\* Secrets whose status has no date or every date.
SecretValues ==
  [TypeMeta : {[Kind |-> "Secret"]},
   ObjectMeta : [Name : {"secret"}, Labels : Opt({"label"})],
   Spec : SecretSpecValues,
   Status : {st \in SecretStatusValues :
               \A f \in DOMAIN st.AtProvider :
                 (st.AtProvider[f] = <<>>) <=> (st.AtProvider.CreatedDate = <<>>)}]

\* A secret with nothing set and one with everything set.
ListedSecrets ==
  {sc \in SecretValues :
     /\ (sc.ObjectMeta.Labels = <<>>) <=> (sc.Spec.ForProvider = NoParameters)
     /\ (sc.ObjectMeta.Labels = <<>>) <=> (sc.Spec.ResourceSpec.ProviderConfigReference = <<>>)
     /\ (sc.ObjectMeta.Labels = <<>>) <=> (sc.Status.ResourceStatus.Conditions = <<>>)
     /\ (sc.ObjectMeta.Labels = <<>>) <=> (sc.Status.AtProvider.CreatedDate = <<>>)}

SecretListValues ==
  [TypeMeta : {[Kind |-> "SecretList"]},
   ListMeta : [ResourceVersion : {"1"}, RemainingItemCount : Opt({1})],
   Items : Opt(SeqUpTo(ListedSecrets, MaxItems))]

\* The types with a generated DeepCopy, and the values of each.
CopiedKinds ==
  {"Secret", "SecretList", "SecretSpec", "SecretStatus", "SecretParameters",
   "SecretObservation", "SecretSelector"}

ValuesOf(kind) ==
  CASE kind = "Secret" -> SecretValues
    [] kind = "SecretList" -> SecretListValues
    [] kind = "SecretSpec" -> SecretSpecValues
    [] kind = "SecretStatus" -> SecretStatusValues
    [] kind = "SecretParameters" -> SecretParametersValues
    [] kind = "SecretObservation" -> SecretObservationValues
    [] kind = "SecretSelector" -> SecretSelectorValues

\* A field that holds or leads to a pointer: a struct of its own, a pointer
\* (or map, or slice of plain values) to a value of a kind, or a slice of
\* structs of a kind.
Field(name, how, of) == [name |-> name, how |-> how, of |-> of]

\* The fields of each struct that hold or lead to a pointer, in the order in
\* which the deep copies treat them; a kind without any has none.
Shape(kind) ==
  CASE kind = "Secret" ->
         <<Field("ObjectMeta", "struct", "ObjectMeta"),
           Field("Spec", "struct", "SecretSpec"),
           Field("Status", "struct", "SecretStatus")>>
    [] kind = "SecretList" ->
         <<Field("ListMeta", "struct", "ListMeta"),
           Field("Items", "slice", "Secret")>>
    [] kind = "SecretSpec" ->
         <<Field("ResourceSpec", "struct", "ResourceSpec"),
           Field("ForProvider", "struct", "SecretParameters")>>
    [] kind = "SecretStatus" ->
         <<Field("ResourceStatus", "struct", "ResourceStatus"),
           Field("AtProvider", "struct", "SecretObservation")>>
    [] kind = "SecretParameters" ->
         <<Field("Description", "pointer", "string"),
           Field("KmsKeyID", "pointer", "string"),
           Field("KmsKeyRef", "pointer", "Reference"),
           Field("KmsKeySelector", "pointer", "Selector"),
           Field("SecretRef", "pointer", "SecretSelector"),
           Field("ForceDeleteWithoutRecovery", "pointer", "bool"),
           Field("RecoveryWindowInDays", "pointer", "int64"),
           Field("Tags", "pointer", "[]Tag")>>
    [] kind = "SecretObservation" ->
         <<Field("CreatedDate", "pointer", "Time"),
           Field("DeletedDate", "pointer", "Time"),
           Field("DeletionDate", "pointer", "Time")>>
    [] kind = "SecretSelector" ->
         <<Field("SecretReference", "pointer", "SecretReference")>>
    [] kind = "Selector" ->
         <<Field("MatchLabels", "pointer", "map"),
           Field("MatchControllerRef", "pointer", "bool")>>
    [] kind = "ResourceSpec" ->
         <<Field("ProviderConfigReference", "pointer", "Reference")>>
    [] kind = "ResourceStatus" ->
         <<Field("Conditions", "pointer", "[]Condition")>>
    [] kind = "ObjectMeta" -> <<Field("Labels", "pointer", "map")>>
    [] kind = "ListMeta" -> <<Field("RemainingItemCount", "pointer", "int64")>>
    [] OTHER -> <<>>

\* new(T) holding the value that was laid out.
AllocLaid(c, kind) == Alloc(c.heap, Cell(kind, c.out))

\* The layout of a value in memory: each pointer, slice and map that is
\* present is made to point to a cell of its own, field by field from field
\* i on, and each absent one is made nil.
RECURSIVE LayFields(_, _, _)
RECURSIVE LayItems(_, _, _)
LayItems(c, kind, i) ==
  IF i > Len(c.out) THEN c
  ELSE LayItems(PutStruct(c, i, LayFields(Copied(c.heap, c.out[i]), Shape(kind), 1)),
                kind, i + 1)

LayField(c, fd) ==
  IF fd.how = "struct"
  THEN PutStruct(c, fd.name,
                 LayFields(Copied(c.heap, c.out[fd.name]), Shape(fd.of), 1))
  ELSE IF c.out[fd.name] = <<>> THEN Put(c, fd.name, Allocated(c.heap, 0))
  ELSE IF fd.how = "slice"
  THEN Put(c, fd.name,
           AllocLaid(LayItems(Copied(c.heap, c.out[fd.name][1]), fd.of, 1),
                     "[]Secret"))
  ELSE Put(c, fd.name,
           AllocLaid(LayFields(Copied(c.heap, c.out[fd.name][1]), Shape(fd.of), 1),
                     fd.of))

LayFields(c, shape, i) ==
  IF i > Len(shape) THEN c ELSE LayFields(LayField(c, shape[i]), shape, i + 1)

\* A pointer to a struct of the kind holding x, or nil for <<>>: the struct
\* is the last cell made, after the cells its pointers point to.
Receiver(kind, opt) ==
  IF opt = <<>> THEN Allocated(<<>>, 0)
  ELSE AllocLaid(LayFields(Copied(<<>>, opt[1]), Shape(kind), 1), kind)

\* What a pointer leads to, read back from memory: <<>> for nil, and else
\* the value pointed to together with whether its cell was written to, with
\* every pointer inside it read in the same way.
RECURSIVE ReadFields(_, _, _, _)
RECURSIVE ReadItems(_, _, _, _)
ReadItems(h, items, kind, i) ==
  IF i > Len(items) THEN items
  ELSE ReadItems(h, [items EXCEPT ![i] = ReadFields(h, items[i], Shape(kind), 1)],
                 kind, i + 1)

\* What a cell holds, read through the field that points to it.
ReadCell(h, cell, fd) ==
  [v |-> IF fd.how = "slice" THEN ReadItems(h, cell.v, fd.of, 1)
         ELSE ReadFields(h, cell.v, Shape(fd.of), 1),
   written |-> cell.written]

ReadField(h, v, fd) ==
  IF fd.how = "struct"
  THEN [v EXCEPT ![fd.name] = ReadFields(h, v[fd.name], Shape(fd.of), 1)]
  ELSE IF v[fd.name] = 0 THEN [v EXCEPT ![fd.name] = <<>>]
  ELSE [v EXCEPT ![fd.name] = <<ReadCell(h, h[v[fd.name]], fd)>>]

ReadFields(h, v, shape, i) ==
  IF i > Len(shape) THEN v
  ELSE ReadFields(h, ReadField(h, v, shape[i]), shape, i + 1)

Read(h, p) ==
  IF p = 0 THEN <<>>
  ELSE <<[v |-> ReadFields(h, h[p].v, Shape(h[p].kind), 1),
          written |-> h[p].written]>>

(* ------------------------------- inputs -------------------------------- *)

\* A failure injected into a provider request or a cluster-store update.
Faults == {NilError, errBoom}

NilEntries == {"none", "front", "back"}

\* The conditions an object may carry when it is first handed to the adapter.
InitialConditions ==
  {<<>>, <<ReconcileSuccess>>, <<Creating, ReconcileSuccess>>}

\* v1alpha1.IAMUserPolicyAttachmentParameters (Spec.ForProvider)
UserPolicyAttachmentParameters(userName, policyARN) ==
  [UserName |-> userName, PolicyARN |-> policyARN]

\* v1alpha1.IAMUserPolicyAttachment: the fields the adapter reads and writes.
IAMUserPolicyAttachment(userName, policyARN, conds) ==
  [kind |-> KindAttachment,
   spec |-> UserPolicyAttachmentParameters(userName, policyARN),
   conditions |-> conds,
   atProvider |-> [AttachedPolicyARN |-> ""]]

\* v1beta1.IAMRoleParameters (Spec.ForProvider)
RoleParameters(description, document) ==
  [Description |-> description, AssumeRolePolicyDocument |-> document]

\* v1beta1.IAMRole: external name, parameters, conditions.
IAMRole(name, description, document, conds) ==
  [kind |-> KindRole,
   externalName |-> name,
   spec |-> RoleParameters(description, document),
   conditions |-> conds]

RoleNames == {"some arbitrary name"}

Descriptions == {Nil, "some description", "another description"}

Documents == {"{a}", "{ a }", "{b}"}

Attachments ==
  {IAMUserPolicyAttachment(u, a, c) :
     u \in Users, a \in PolicyArns \cup {""}, c \in InitialConditions}

Roles ==
  {IAMRole(n, d, p, c) :
     n \in RoleNames, d \in Descriptions, p \in Documents, c \in InitialConditions}

NoRoles == [n \in RoleNames |-> <<>>]

\* The services an attachment adapter may face: any users, and at most
\* MaxPreAttached attachments of existing users.
AttachmentProviders ==
  {Provider(us, att, NoRoles) :
     us \in SUBSET Users,
     att \in {x \in SUBSET (Users \X PolicyArns) : Cardinality(x) <= MaxPreAttached}}

\* The services a role adapter may face: each role absent or present.
RoleProviders ==
  {Provider({}, {}, rs) :
     rs \in [RoleNames ->
               {<<>>} \cup {<<Role(d, CompactAndEscapeJSON(p))>> :
                               d \in Descriptions, p \in Documents}]}

(* ------------------------------ the state ------------------------------ *)

VARIABLES
  adapter,   \* the kind of resource the adapter under test reconciles
  mg,        \* the managed object handed to the adapter
  provider,  \* the IAM service
  last,      \* the last lifecycle invocation: what went in and what came out
  trail,     \* what the service is known to hold since it last changed
  pc,        \* the scheduler's next call on the object
  faultsLeft,\* the failures the service and the store may still answer with
  mgs,       \* two managed objects reconciled side by side
  pending,   \* per object of mgs, the invocation whose request is under way
  alone,     \* per object of mgs, the service had only that object's calls run
  heap,      \* the memory cells behind the pointers of a value being copied
  original,  \* the receiver of DeepCopy: the address of its cell, 0 for nil
  copy,      \* what DeepCopy returned: the address of its cell, 0 for nil
  want,      \* the value the receiver held when it was handed to DeepCopy
  touched    \* through which of original and copy cells were written since

vars == <<adapter, mg, provider, last, trail, pc, faultsLeft, mgs, pending, alone,
          heap, original, copy, want, touched>>

\* The variables of the scheduler and of the two objects side by side.
schedulerVars == <<pc, faultsLeft>>

pairVars == <<mgs, pending, alone>>

\* No scheduler drives the calls; no second object is reconciled.
NoScheduler == pc = "none" /\ faultsLeft = 0

NoPair == mgs = <<>> /\ pending = <<>> /\ alone = <<>>

\* The variables of a value and its deep copy.
copyVars == <<heap, original, copy, want, touched>>

\* No value is being copied.
NoCopy ==
  /\ heap = <<>> /\ original = 0 /\ copy = 0
  /\ want = <<>> /\ touched = "none"

(* ------------------------------ behaviour ------------------------------ *)

\* An adapter is handed objects of its own kind and, by a wiring error,
\* objects of the other kind.
Init ==
  /\ adapter \in {KindAttachment, KindRole}
  /\ mg \in IF adapter = KindAttachment
            THEN Attachments \cup {r \in Roles : r.spec = RoleParameters(Nil, "{a}")}
            ELSE Roles \cup {a \in Attachments :
                               a.spec = UserPolicyAttachmentParameters(UserNames[1], "")}
  /\ provider \in IF adapter = KindAttachment
                  THEN {pr \in AttachmentProviders :
                          \A at \in pr.attached : at[1] \in pr.users}
                  ELSE RoleProviders
  /\ last = [op |-> "none"]
  /\ trail = "none"
  /\ NoScheduler
  /\ NoPair
  /\ NoCopy

\* A lifecycle method returns: the object and the service are as the method
\* left them, and the invocation is on record.
Return(op, out) ==
  /\ mg' = out.mg
  /\ provider' = out.provider
  /\ last' = [op |-> op, before |-> mg, providerBefore |-> provider,
              result |-> out.result, err |-> out.err,
              calls |-> out.calls, writes |-> out.writes]
  /\ UNCHANGED <<adapter, copyVars>>

Finish(op, out) ==
  /\ Return(op, out)
  /\ UNCHANGED <<trail, schedulerVars, pairVars>>

DoObserve ==
  IF adapter = KindAttachment
  THEN \E fault \in Faults, nilEntry \in NilEntries, kubeFault \in Faults :
         Finish("Observe", Observe(mg, provider, fault, nilEntry, kubeFault))
  ELSE \E fault \in Faults, kubeFault \in Faults :
         Finish("Observe", RoleObserve(mg, provider, fault, kubeFault))

DoCreate ==
  \E fault \in Faults :
    Finish("Create",
           IF adapter = KindAttachment
           THEN Create(mg, provider, fault)
           ELSE RoleCreate(mg, provider, fault))

DoUpdate ==
  IF adapter = KindAttachment
  THEN Finish("Update", Update(mg, provider))
  ELSE \E getFault \in Faults, roleFault \in Faults, policyFault \in Faults :
         Finish("Update",
                RoleUpdate(mg, provider, getFault, roleFault, policyFault))

DoDelete ==
  \E fault \in Faults :
    Finish("Delete",
           IF adapter = KindAttachment
           THEN Delete(mg, provider, fault)
           ELSE RoleDelete(mg, provider, fault))

Next == DoObserve \/ DoCreate \/ DoUpdate \/ DoDelete

Spec == Init /\ [][Next]_vars

(* --------------- one attachment, followed through its calls ------------ *)

\* The same lifecycle methods on one attachment, with a record of what the
\* last successful Create or Delete left at the service: "created" after a
\* Create that returned nil, "deleted" after a Delete that returned nil, and
\* "none" as soon as the service changes in any other way.
InitRoundTrip ==
  /\ adapter = KindAttachment
  /\ mg \in Attachments
  /\ provider \in {pr \in AttachmentProviders :
                     \A at \in pr.attached : at[1] \in pr.users}
  /\ last = [op |-> "none"]
  /\ trail = "none"
  /\ NoScheduler
  /\ NoPair
  /\ NoCopy

Follow(op, out) ==
  /\ Return(op, out)
  /\ trail' = IF op = "Create" /\ out.err = NilError THEN "created"
              ELSE IF op = "Delete" /\ out.err = NilError THEN "deleted"
              ELSE IF out.provider = provider THEN trail
              ELSE "none"
  /\ UNCHANGED <<schedulerVars, pairVars>>

ThenObserve ==
  \E fault \in Faults, nilEntry \in NilEntries, kubeFault \in Faults :
    Follow("Observe", Observe(mg, provider, fault, nilEntry, kubeFault))

ThenCreate == \E fault \in Faults : Follow("Create", Create(mg, provider, fault))

ThenUpdate == Follow("Update", Update(mg, provider))

ThenDelete == \E fault \in Faults : Follow("Delete", Delete(mg, provider, fault))

NextRoundTrip == ThenObserve \/ ThenCreate \/ ThenUpdate \/ ThenDelete

SpecRoundTrip == InitRoundTrip /\ [][NextRoundTrip]_vars

(* ------------- one attachment under the reconciling scheduler ---------- *)

\* The failures the service and the cluster store answer with before their
\* calls succeed.
MaxFaults == 2

\* The failures that can still be injected.
FaultsWithin(left) == IF left > 0 THEN Faults ELSE {NilError}

\* The scheduler reconciles one attachment that is not being deleted: it
\* calls Observe, and Create when Observe reported (without error) that the
\* resource does not exist; then it starts over.  The user exists and the
\* policy ARN is one the service accepts, so that a call fails only by an
\* injected failure, and of those there are at most MaxFaults.  The names
\* being interchangeable, the object is the first user's first policy.
InitReconcile ==
  /\ adapter = KindAttachment
  /\ mg \in {a \in Attachments :
               a.spec = UserPolicyAttachmentParameters(UserNames[1], ArnNames[1])}
  /\ provider \in {pr \in AttachmentProviders :
                     /\ pr.users = Users
                     /\ \A at \in pr.attached : at[1] = mg.spec.UserName}
  /\ last = [op |-> "none"]
  /\ trail = "none"
  /\ pc = "Observe"
  /\ faultsLeft = MaxFaults
  /\ NoPair
  /\ NoCopy

ReconcileObserve ==
  /\ pc = "Observe"
  /\ \E fault \in FaultsWithin(faultsLeft), nilEntry \in NilEntries,
        kubeFault \in FaultsWithin(faultsLeft) :
       LET out == Observe(mg, provider, fault, nilEntry, kubeFault)
       IN /\ Return("Observe", out)
          /\ pc' = IF out.err = NilError /\ ~out.result.ResourceExists
                   THEN "Create" ELSE "Observe"
          /\ faultsLeft' = IF fault = NilError /\ kubeFault = NilError
                           THEN faultsLeft ELSE faultsLeft - 1
  /\ UNCHANGED <<trail, pairVars>>

ReconcileCreate ==
  /\ pc = "Create"
  /\ \E fault \in FaultsWithin(faultsLeft) :
       /\ Return("Create", Create(mg, provider, fault))
       /\ faultsLeft' = IF fault = NilError THEN faultsLeft ELSE faultsLeft - 1
  /\ pc' = "Observe"
  /\ UNCHANGED <<trail, pairVars>>

NextReconcile == ReconcileObserve \/ ReconcileCreate

\* The scheduler requeues the object after every reconciliation, so the
\* next call always comes.
SpecReconcile ==
  InitReconcile /\ [][NextReconcile]_vars /\ WF_vars(NextReconcile)

(* ------------------- two attachments side by side ---------------------- *)

\* Two attachments with different (user name, policy ARN) pairs, each with
\* an adapter of its own, against one service.  A lifecycle method runs in
\* two steps: up to and including its request at the service, and from the
\* response to its return; the steps of the two objects interleave freely.
\* alone[i] is the service as it would be had only object i's calls run.
\* The names being interchangeable, the first object is the first user's
\* first policy; the second object is any other pair.
Pairs == Users \X PolicyArns

\* What a method returns and leaves in the object.
Returned(out) == [mg |-> out.mg, result |-> out.result, err |-> out.err]

\* The attachments in which two states of the service differ.
Changed(before, after) ==
  (before.attached \ after.attached) \cup (after.attached \ before.attached)

InitPair ==
  /\ adapter = KindAttachment
  /\ mg = IAMUserPolicyAttachment(UserNames[1], "", <<>>)
  /\ last = [op |-> "none"]
  /\ trail = "none"
  /\ NoScheduler
  /\ NoCopy
  /\ mgs \in {<<IAMUserPolicyAttachment(UserNames[1], ArnNames[1], <<>>),
                IAMUserPolicyAttachment(q[1], q[2], <<>>)>> :
                q \in Pairs \ {<<UserNames[1], ArnNames[1]>>}}
  /\ provider \in {pr \in AttachmentProviders :
                     /\ pr.users \in {Users, Users \ {mgs[2].spec.UserName}}
                     /\ \A at \in pr.attached :
                          /\ at[1] \in pr.users
                          /\ \E i \in 1..2 :
                               at = <<mgs[i].spec.UserName, mgs[i].spec.PolicyARN>>}
  /\ pending = <<<<>>, <<>>>>
  /\ alone = <<provider, provider>>

\* Object i's method op sends its request: the service answers it from what
\* it holds now; out is the method's outcome, solo the outcome had the other
\* object's calls not run.
Begin(i, op, out, solo) ==
  /\ pending[i] = <<>>
  /\ provider' = out.provider
  /\ alone' = [alone EXCEPT ![i] = solo.provider]
  /\ pending' = [pending EXCEPT ![i] =
                   <<[op |-> op, changed |-> Changed(provider, out.provider),
                      together |-> Returned(out), solo |-> Returned(solo)]>>]
  /\ UNCHANGED <<adapter, mg, last, trail, schedulerVars, mgs, copyVars>>

PairObserve(i) ==
  \E fault \in Faults, nilEntry \in NilEntries :
    Begin(i, "Observe",
          Observe(mgs[i], provider, fault, nilEntry, NilError),
          Observe(mgs[i], alone[i], fault, nilEntry, NilError))

PairCreate(i) ==
  \E fault \in Faults :
    Begin(i, "Create", Create(mgs[i], provider, fault),
          Create(mgs[i], alone[i], fault))

PairUpdate(i) ==
  Begin(i, "Update", Update(mgs[i], provider), Update(mgs[i], alone[i]))

PairDelete(i) ==
  \E fault \in Faults :
    Begin(i, "Delete", Delete(mgs[i], provider, fault),
          Delete(mgs[i], alone[i], fault))

\* Object i's method returns.
PairReturn(i) ==
  /\ pending[i] # <<>>
  /\ mgs' = [mgs EXCEPT ![i] = pending[i][1].together.mg]
  /\ pending' = [pending EXCEPT ![i] = <<>>]
  /\ UNCHANGED <<adapter, mg, provider, last, trail, schedulerVars, alone, copyVars>>

NextPair ==
  \E i \in 1..2 :
    \/ PairObserve(i)
    \/ PairCreate(i)
    \/ PairUpdate(i)
    \/ PairDelete(i)
    \/ PairReturn(i)

SpecPair == InitPair /\ [][NextPair]_vars

(* --------------------- a value and its deep copy ----------------------- *)

\* The cells that may be written to after the copy was made.
MaxWrites == 1

\* A value of one of the seven types is laid out in memory, DeepCopy is
\* called on the pointer to it (or on nil), and then cells are written to:
\* either cells of the original or cells that DeepCopy made.  want is what
\* the original leads to before anything is written.
InitDeepCopy ==
  /\ adapter = KindAttachment
  /\ mg = IAMUserPolicyAttachment(UserNames[1], "", <<>>)
  /\ provider = Provider({}, {}, NoRoles)
  /\ last = [op |-> "none"]
  /\ trail = "none"
  /\ NoScheduler
  /\ NoPair
  /\ \E kind \in CopiedKinds :
       \E opt \in Opt(ValuesOf(kind)) :
         \E r \in {Receiver(kind, opt)} :
           /\ heap = r.heap
           /\ original = r.ptr
           /\ want = Read(r.heap, r.ptr)
  /\ copy = 0
  /\ touched = "before"

\* The cells of the original (the receiver's own cell is the last of them)
\* and the cells made since.
CellsOfOriginal == 1..original

CellsMade == (original + 1)..Len(heap)

DoDeepCopy ==
  /\ touched = "before"
  /\ \E r \in {DeepCopy(heap, original)} :
       /\ heap' = r.heap
       /\ copy' = r.ptr
  /\ touched' = "copied"
  /\ UNCHANGED <<adapter, mg, provider, last, trail, schedulerVars, pairVars,
                 original, want>>

\* A pointed-to value, a slice element or a map entry is changed.
WriteTo(a) ==
  /\ ~heap[a].written
  /\ Cardinality({b \in 1..Len(heap) : heap[b].written}) < MaxWrites
  /\ heap' = [heap EXCEPT ![a].written = TRUE]
  /\ UNCHANGED <<adapter, mg, provider, last, trail, schedulerVars, pairVars,
                 original, copy, want>>

WriteThroughOriginal ==
  /\ touched \in {"copied", "original"}
  /\ \E a \in CellsOfOriginal : WriteTo(a)
  /\ touched' = "original"

WriteThroughCopy ==
  /\ touched \in {"copied", "copy"}
  /\ \E a \in CellsMade : WriteTo(a)
  /\ touched' = "copy"

NextDeepCopy == DoDeepCopy \/ WriteThroughOriginal \/ WriteThroughCopy

SpecDeepCopy == InitDeepCopy /\ [][NextDeepCopy]_vars

(* ------------------------------ properties ----------------------------- *)

\* The conditions of a condition list, as a set.
Conds(conds) == {conds[i] : i \in 1..Len(conds)}

\* The last invocation was of lifecycle method op.
Invoked(op) == last.op = op

\* The object handed to the last invocation was of the adapter's kind.
RightKind == last.before.kind = adapter

\* The adapter's "unexpected object kind" error.
UnexpectedObject ==
  New(IF adapter = KindAttachment THEN errUnexpectedObject ELSE roleErrUnexpectedObject)

\* The fixed tag the adapter wraps a failed get, create or delete with.
GetTag == IF adapter = KindAttachment THEN errGet ELSE roleErrGet

CreateTag == IF adapter = KindAttachment THEN errAttach ELSE roleErrCreate

DeleteTag == IF adapter = KindAttachment THEN errDetach ELSE roleErrDelete

\* The last invocation issued exactly one provider request.
OneCall == Len(last.calls) = 1

\* Every cluster-store update of the last invocation succeeded.
WritesSucceeded == \A i \in 1..Len(last.writes) : last.writes[i].err = NilError

\* Observe's get/list request succeeded and its answer holds the resource
\* the object describes.
ProviderHasResource ==
  /\ OneCall
  /\ last.calls[1].err = NilError
  /\ IF adapter = KindAttachment
     THEN \E i \in 1..Len(last.calls[1].out.AttachedPolicies) :
            StringValue(last.calls[1].out.AttachedPolicies[i].PolicyArn)
              = last.before.spec.PolicyARN
     ELSE TRUE

\* The configuration Observe saw at the provider differs from the desired
\* state: for an attachment the observed ARN, for a role the description or
\* the trust-policy document.
Divergent ==
  IF adapter = KindAttachment
  THEN /\ last.result.ResourceExists
       /\ mg.atProvider.AttachedPolicyARN # mg.spec.PolicyARN
  ELSE LET role == last.calls[1].out.Role[1]
       IN \/ StringValue(mg.spec.Description) # StringValue(role.Description)
          \/ CompactAndEscapeJSON(mg.spec.AssumeRolePolicyDocument)
               # CompactAndEscapeJSON(role.AssumeRolePolicyDocument)

\* C1: handed an object that is not of its kind, each of Observe, Create and
\* Delete returns the "unexpected object kind" error (Observe and Create with
\* a zero-valued result), issues no provider request and no cluster-store
\* update, and leaves the object (and the provider) as it was.
C1_WrongKindRejected ==
  (last.op \in {"Observe", "Create", "Delete"} /\ ~RightKind) =>
    /\ last.err = UnexpectedObject
    /\ Invoked("Observe") => last.result = ZeroObservation
    /\ Invoked("Create") => last.result = ExternalCreation
    /\ last.calls = <<>>
    /\ last.writes = <<>>
    /\ mg = last.before
    /\ provider = last.providerBefore

C1_Witness ==
  /\ Invoked("Delete")
  /\ adapter = KindAttachment
  /\ last.before.kind = KindRole
  /\ last.before.conditions = <<Creating, ReconcileSuccess>>

\* C2: handed an object that is not of its kind, Update returns the
\* "unexpected object kind" error, never success, and leaves the object as it
\* was.
C2_UpdateChecksKind ==
  (Invoked("Update") /\ ~RightKind) =>
    /\ last.err = UnexpectedObject
    /\ mg = last.before

\* C3: when the get/list request of Observe fails with an error classified
\* "not found", Observe returns exists=false and a nil error, and the object
\* is exactly as it was before the call.
C3_ObserveNotFound ==
  (Invoked("Observe") /\ OneCall /\ IsErrorNotFound(last.calls[1].err)) =>
    /\ last.result = ExternalObservation(FALSE, FALSE)
    /\ last.err = NilError
    /\ mg = last.before

C3_Witness ==
  /\ Invoked("Observe")
  /\ adapter = KindAttachment
  /\ OneCall
  /\ IsErrorNotFound(last.calls[1].err)
  /\ last.before.conditions # <<>>

\* C4: when the get/list request of Observe fails with an error that is not
\* "not found", Observe returns a zero-valued observation and a non-nil error
\* that wraps the provider error with the "failed to get" tag; nothing is
\* late-initialized, nothing is written to the cluster store and no condition
\* is set.
C4_ObserveGetFailed ==
  (/\ Invoked("Observe") /\ OneCall
   /\ last.calls[1].err # NilError
   /\ ~IsErrorNotFound(last.calls[1].err)) =>
    /\ last.result = ZeroObservation
    /\ last.err # NilError
    /\ last.err = <<GetTag>> \o last.calls[1].err
    /\ last.writes = <<>>
    /\ mg = last.before

C4_Witness ==
  /\ Invoked("Observe")
  /\ adapter = KindAttachment
  /\ OneCall
  /\ last.calls[1].err = errBoom
  /\ last.err = <<errGet, "boom">>

\* C5: when Observe finds the resource, the resource does not differ from the
\* desired state and every late-initialization write succeeds, Observe sets
\* the Available condition and returns exists=true, upToDate=true and a nil
\* error.
C5_ObserveUpToDate ==
  (/\ Invoked("Observe") /\ RightKind
   /\ ProviderHasResource /\ WritesSucceeded
   /\ ~Divergent) =>
    /\ Available \in Conds(mg.conditions)
    /\ last.result = ExternalObservation(TRUE, TRUE)
    /\ last.err = NilError

C5_Witness ==
  /\ Invoked("Observe")
  /\ adapter = KindAttachment /\ RightKind
  /\ ProviderHasResource
  /\ Available \notin Conds(last.before.conditions)
  /\ last.result = ExternalObservation(TRUE, TRUE)

C7_CreatingBeforeCall ==
  (Invoked("Create") /\ RightKind) =>
    /\ OneCall
    /\ Creating \in Conds(last.calls[1].conditions)
    /\ Creating \in Conds(mg.conditions)

C7_Witness ==
  /\ Invoked("Create")
  /\ adapter = KindAttachment /\ RightKind
  /\ OneCall
  /\ last.calls[1].err # NilError
  /\ Creating \notin Conds(last.before.conditions)
  /\ Creating \in Conds(mg.conditions)

\* C8: Create returns the empty creation result in every case; its error is
\* nil exactly when the create/attach request succeeded, and otherwise, the
\* request having failed, it is the provider error wrapped with the
\* create/attach tag, the object's readiness condition being Creating.
C8_CreateResult ==
  Invoked("Create") =>
    /\ last.result = ExternalCreation
    /\ last.err = NilError <=> (OneCall /\ last.calls[1].err = NilError)
    /\ (OneCall /\ last.calls[1].err # NilError) =>
         /\ last.err = <<CreateTag>> \o last.calls[1].err
         /\ {c \in Conds(mg.conditions) : c.type = "Ready"} = {Creating}

C8_Witness ==
  /\ Invoked("Create")
  /\ adapter = KindAttachment
  /\ OneCall
  /\ IsErrorNotFound(last.calls[1].err)
  /\ last.err = <<errAttach, ErrCodeNoSuchEntityException>>

\* C9: for an object of the right kind, Delete sets the Deleting condition
\* before it issues the delete/detach request; it returns nil when the
\* request succeeds and when the provider answers "not found", and for any
\* other failure the provider error wrapped with the delete/detach tag;
\* Deleting is set in every one of these cases.
C9_DeleteResult ==
  (Invoked("Delete") /\ RightKind) =>
    /\ OneCall
    /\ Deleting \in Conds(last.calls[1].conditions)
    /\ {c \in Conds(mg.conditions) : c.type = "Ready"} = {Deleting}
    /\ last.err =
         IF last.calls[1].err = NilError \/ IsErrorNotFound(last.calls[1].err)
         THEN NilError
         ELSE <<DeleteTag>> \o last.calls[1].err

C9_Witness ==
  /\ Invoked("Delete")
  /\ adapter = KindAttachment /\ RightKind
  /\ OneCall
  /\ IsErrorNotFound(last.calls[1].err)
  /\ last.err = NilError
  /\ Deleting \notin Conds(last.before.conditions)

\* C10: Update of the attachment adapter is a no-op: for every object and
\* every provider state it returns the empty update result and a nil error,
\* issues no provider request and no cluster-store update, and changes
\* neither the object's spec, status nor conditions.
C10_AttachmentUpdateNoOp ==
  (Invoked("Update") /\ adapter = KindAttachment) =>
    /\ last.result = ExternalUpdate
    /\ last.err = NilError
    /\ last.calls = <<>>
    /\ last.writes = <<>>
    /\ mg = last.before
    /\ provider = last.providerBefore

C10_Witness ==
  /\ Invoked("Update")
  /\ adapter = KindAttachment /\ RightKind
  /\ <<mg.spec.UserName, mg.spec.PolicyARN>> \notin provider.attached
  /\ mg.spec.UserName \in provider.users
  /\ mg.spec.PolicyARN # ""
  /\ mg.conditions = <<Creating, ReconcileSuccess>>

\* The requests of the last invocation that went to provider operation api.
CallsTo(api) == {i \in 1..Len(last.calls) : last.calls[i].api = api}

\* C11: Update of the role adapter issues its requests in the order get,
\* attributes, trust-policy document, and stops at the first failure: a
\* failed attribute update is returned wrapped with "failed to update" and
\* no policy-document update is attempted; a failed policy-document update,
\* the get and the attribute update before it having succeeded, is returned
\* wrapped with "failed to update"; either way the object's conditions are
\* the ones it had.
C11_UpdateFailFast ==
  (Invoked("Update") /\ adapter = KindRole /\ RightKind) =>
    /\ \A i \in 1..Len(last.calls) : \A j \in 1..Len(last.calls) :
         /\ (last.calls[i].api = "GetRole" /\ i # j) => i < j
         /\ (last.calls[i].api = "UpdateRole"
               /\ last.calls[j].api = "UpdateAssumeRolePolicy") => i < j
         /\ (i < j) => last.calls[i].err = NilError
    /\ \A i \in CallsTo("UpdateRole") :
         last.calls[i].err # NilError =>
           /\ last.err = <<roleErrUpdate>> \o last.calls[i].err
           /\ CallsTo("UpdateAssumeRolePolicy") = {}
    /\ \A i \in CallsTo("UpdateAssumeRolePolicy") :
         last.calls[i].err # NilError =>
           last.err = <<roleErrUpdate>> \o last.calls[i].err
    /\ mg.conditions = last.before.conditions

\* The policy-document update failed after the attribute update succeeded.
C11_Witness ==
  /\ Invoked("Update")
  /\ adapter = KindRole /\ RightKind
  /\ Len(last.calls) = 3
  /\ last.calls[2].api = "UpdateRole" /\ last.calls[2].err = NilError
  /\ last.calls[3].api = "UpdateAssumeRolePolicy" /\ last.calls[3].err = errBoom
  /\ last.err = <<roleErrUpdate, "boom">>
  /\ last.before.conditions # <<>>
  /\ provider # last.providerBefore

\* The fixed tag the adapter wraps a failed late-initialization write with.
KubeUpdateTag ==
  IF adapter = KindAttachment THEN errKubeUpdateFailed ELSE roleErrKubeUpdateFailed

\* C12: when Observe finds the resource, it updates the object in the cluster
\* store exactly when late initialization left the desired-state parameters
\* different from what they were, once, with the late-initialized
\* parameters; when that update fails, Observe returns the failure wrapped
\* with the late-initialization tag and a zero-valued observation.
C12_LateInitPersisted ==
  (Invoked("Observe") /\ RightKind /\ ProviderHasResource) =>
    /\ last.writes # <<>> <=> mg.spec # last.before.spec
    /\ Len(last.writes) <= 1
    /\ last.writes # <<>> =>
         /\ last.writes[1].object.spec = mg.spec
         /\ last.writes[1].err # NilError =>
              /\ last.err = <<KubeUpdateTag>> \o last.writes[1].err
              /\ last.result = ZeroObservation

\* A late-initialized description could not be written to the store.
C12_Witness ==
  /\ Invoked("Observe")
  /\ adapter = KindRole /\ RightKind
  /\ ProviderHasResource
  /\ last.before.spec.Description = Nil
  /\ mg.spec.Description = "some description"
  /\ Len(last.writes) = 1
  /\ last.writes[1].err = errBoom
  /\ last.err = <<roleErrKubeUpdateFailed, "boom">>

\* The provider operation a lifecycle method of the attachment adapter calls.
AttachmentApi(op) ==
  CASE op = "Observe" -> "ListAttachedUserPolicies"
    [] op = "Create" -> "AttachUserPolicy"
    [] op = "Delete" -> "DetachUserPolicy"
    [] OTHER -> "none"

\* The fixed tag a lifecycle method of the attachment adapter wraps a failed
\* request with.
AttachmentTag(op) ==
  CASE op = "Observe" -> errGet
    [] op = "Create" -> errAttach
    [] op = "Delete" -> errDetach
    [] OTHER -> "none"

\* C13: the adapter never retries.  One invocation sends no request twice and
\* sends nothing after a request that failed.  In the attachment adapter
\* Observe, Create and Delete send at most one request (list, attach, detach)
\* and Update sends none; a failed request is the invocation's result: the
\* provider error under the method's tag, or nil where "not found" is
\* exempt (Observe, Delete).
C13_NoRetry ==
  (last.op # "none") =>
    /\ \A i \in 1..Len(last.calls) : \A j \in 1..Len(last.calls) :
         /\ last.calls[i].api = last.calls[j].api => i = j
         /\ last.calls[i].err # NilError => j <= i
    /\ adapter = KindAttachment =>
         /\ Len(last.calls) <= 1
         /\ Invoked("Update") => last.calls = <<>>
         /\ \A i \in 1..Len(last.calls) :
              /\ last.calls[i].api = AttachmentApi(last.op)
              /\ last.calls[i].err # NilError =>
                   \/ last.err = <<AttachmentTag(last.op)>> \o last.calls[i].err
                   \/ /\ last.op \in {"Observe", "Delete"}
                      /\ IsErrorNotFound(last.calls[i].err)
                      /\ last.err = NilError

\* An attach request failed and was not sent again, although a second
\* attempt would have had a user to attach to.
C13_Witness ==
  /\ Invoked("Create")
  /\ adapter = KindAttachment /\ RightKind
  /\ last.calls # <<>>
  /\ last.calls[1].err = errBoom
  /\ last.err = <<errAttach, "boom">>
  /\ last.before.spec.UserName \in provider.users
  /\ last.before.spec.PolicyARN # ""
  /\ <<last.before.spec.UserName, last.before.spec.PolicyARN>> \notin provider.attached

\* A request of invocation l was answered with an injected failure rather
\* than from what the service holds.
Injected(l) == \E i \in 1..Len(l.calls) : l.calls[i].err = errBoom

\* C14: with a service that answers from the attachments it holds, and no
\* change at the service in between: after a Create that returned nil,
\* Observe of the same object returns exists=true; after a Delete that
\* returned nil, Observe returns exists=false and a nil error, and a further
\* Delete returns nil again.
C14_RoundTrip ==
  [][/\ (trail = "created" /\ last'.op = "Observe" /\ ~Injected(last')) =>
          /\ last'.result.ResourceExists
          /\ last'.err = NilError
     /\ (trail = "deleted" /\ last'.op = "Observe" /\ ~Injected(last')) =>
          /\ ~last'.result.ResourceExists
          /\ last'.err = NilError
     /\ (trail = "deleted" /\ last'.op = "Delete" /\ ~Injected(last')) =>
          last'.err = NilError]_vars

\* Observe found an attachment that only the object's Create can have made.
C14_Witness ==
  /\ Invoked("Observe")
  /\ trail = "created"
  /\ ~Injected(last)
  /\ <<mg.spec.UserName, mg.spec.PolicyARN>> \in provider.attached
  /\ Cardinality(provider.attached) > MaxPreAttached
  /\ last.result = ExternalObservation(TRUE, TRUE)

\* The object carries Available and the last call was an Observe that
\* reported the resource as existing and up to date.
Converged ==
  /\ Invoked("Observe")
  /\ last.result = ExternalObservation(TRUE, TRUE)
  /\ last.err = NilError
  /\ Available \in Conds(mg.conditions)

\* The attachment is at the service, the object carries Available and the
\* scheduler's next call is Observe.
Settled ==
  /\ <<mg.spec.UserName, mg.spec.PolicyARN>> \in provider.attached
  /\ Available \in Conds(mg.conditions)
  /\ pc = "Observe"

\* C15: under a scheduler that keeps repeating "Observe; if exists=false then
\* Create" on one object that is not being deleted, and a service whose calls
\* fail only finitely often, the object comes to carry Available with Observe
\* returning exists=true and upToDate=true, in the end for good; and from the
\* first time it does, the scheduler never calls Create for it again: a
\* converged object is settled, and a settled object stays settled by calls
\* other than Create.
C15_Converges ==
  /\ <>[]Converged
  /\ [](Converged => Settled)
  /\ [][Settled => (Settled' /\ last'.op # "Create")]_vars

\* The object converged through a Create, all failures spent.
C15_Witness ==
  /\ Converged
  /\ faultsLeft = 0
  /\ Cardinality(provider.attached) > MaxPreAttached
  /\ last.before.conditions = <<Creating, ReconcileSuccess>>

\* The readiness conditions among conds.
Readiness(conds) == {c \in Conds(conds) : c.type = "Ready"}

\* C16: after any sequence of Observe, Create, Update and Delete on one
\* object, the object holds at most one readiness condition and no condition
\* type twice, so Available, Creating and Deleting are never present
\* together.  Its readiness is Available after an Observe that found the
\* resource and got past the late-initialization write, Creating after a
\* type-checked Create, Deleting after a type-checked Delete, and after any
\* other call the conditions are the ones the object had before it.
C16_OneReadiness ==
  /\ Cardinality(Readiness(mg.conditions)) <= 1
  /\ \A i \in 1..Len(mg.conditions) : \A j \in 1..Len(mg.conditions) :
       mg.conditions[i].type = mg.conditions[j].type => i = j
  /\ (last.op # "none") =>
       CASE Invoked("Observe") /\ RightKind /\ last.err = NilError
              /\ last.result.ResourceExists ->
              Readiness(mg.conditions) = {Available}
         [] Invoked("Create") /\ RightKind ->
              Readiness(mg.conditions) = {Creating}
         [] Invoked("Delete") /\ RightKind ->
              Readiness(mg.conditions) = {Deleting}
         [] OTHER -> mg.conditions = last.before.conditions

\* Available took the place of Creating, the other condition kept.
C16_Witness ==
  /\ Invoked("Observe")
  /\ adapter = KindAttachment /\ RightKind
  /\ last.before.conditions = <<Creating, ReconcileSuccess>>
  /\ mg.conditions = <<Available, ReconcileSuccess>>

\* The (user name, policy ARN) pair of object i of mgs.
OwnPair(i) == <<mgs[i].spec.UserName, mgs[i].spec.PolicyARN>>

\* C17: two objects with different (user name, policy ARN) pairs, each with
\* its own adapter, do not interfere however their requests interleave: a
\* request of one object changes at the service at most that object's own
\* pair (and only Create and Delete change anything), and every invocation
\* returns the result and error, and leaves the object's conditions and
\* status, that it would have returned and left had the other object's calls
\* not run.
C17_NoInterference ==
  \A i \in 1..Len(pending) :
    /\ (OwnPair(i) \in provider.attached) <=> (OwnPair(i) \in alone[i].attached)
    /\ provider.users = alone[i].users
    /\ pending[i] # <<>> =>
         /\ pending[i][1].together = pending[i][1].solo
         /\ pending[i][1].changed \subseteq {OwnPair(i)}
         /\ pending[i][1].op \in {"Observe", "Update"} => pending[i][1].changed = {}

\* Both objects, of one user, have a request under way: the first has
\* attached its policy, the second has detached its own, and the service is
\* no longer what it would be for the first object alone.
C17_Witness ==
  /\ pending # <<>>
  /\ pending[1] # <<>> /\ pending[2] # <<>>
  /\ pending[1][1].op = "Create" /\ pending[1][1].changed = {OwnPair(1)}
  /\ pending[2][1].op = "Delete" /\ pending[2][1].changed = {OwnPair(2)}
  /\ mgs[1].spec.UserName = mgs[2].spec.UserName
  /\ provider # alone[1]
  /\ mgs[2].conditions = <<Available>>

\* The requests of the last invocation that the service answered with an
\* error.
FailedCalls == {i \in 1..Len(last.calls) : last.calls[i].err # NilError}

\* C18: in the attachment adapter a failed request yields a nil error only
\* in Observe and Delete and only when the failure is "not found"; every
\* other failed request is returned under the method's tag, and in
\* particular a "not found" answer to Create's attach request (the user does
\* not exist) is returned wrapped with the attach tag.
C18_NothingElseSwallowed ==
  (last.op # "none" /\ adapter = KindAttachment) =>
    \A i \in FailedCalls :
      /\ last.err = NilError =>
           /\ last.op \in {"Observe", "Delete"}
           /\ IsErrorNotFound(last.calls[i].err)
      /\ ~(last.op \in {"Observe", "Delete"} /\ IsErrorNotFound(last.calls[i].err)) =>
           last.err = <<AttachmentTag(last.op)>> \o last.calls[i].err
      /\ (Invoked("Create") /\ IsErrorNotFound(last.calls[i].err)) =>
           last.err = <<errAttach>> \o last.calls[i].err

\* A detach request failed for a reason other than "not found" (the policy
\* is attached) and Delete returned the failure.
C18_Witness ==
  /\ Invoked("Delete")
  /\ adapter = KindAttachment /\ RightKind
  /\ FailedCalls = {1}
  /\ ~IsErrorNotFound(last.calls[1].err)
  /\ <<mg.spec.UserName, mg.spec.PolicyARN>> \in provider.attached
  /\ last.err = <<errDetach, "boom">>

\* The list the last Observe of the attachment adapter was answered with
\* holds an entry whose ARN, a missing one read as "", is the desired one.
ListedDesired ==
  \E i \in 1..Len(last.calls[1].out.AttachedPolicies) :
    StringValue(last.calls[1].out.AttachedPolicies[i].PolicyArn)
      = last.before.spec.PolicyARN

\* C19: when the list request for the desired user name succeeds, Observe of
\* the attachment adapter returns exists=true exactly when the list holds an
\* entry whose policy ARN (a missing ARN read as the empty string) equals the
\* desired ARN; when none does, it returns exists=false and a nil error, sets
\* no condition, late-initializes nothing and writes no status.
C19_ExistsIffListed ==
  (/\ Invoked("Observe") /\ adapter = KindAttachment /\ RightKind
   /\ OneCall /\ last.calls[1].err = NilError) =>
    /\ last.calls[1].api = "ListAttachedUserPolicies"
    /\ last.calls[1].input = [UserName |-> last.before.spec.UserName]
    /\ last.result.ResourceExists <=> ListedDesired
    /\ ~ListedDesired =>
         /\ last.result = ExternalObservation(FALSE, FALSE)
         /\ last.err = NilError
         /\ last.writes = <<>>
         /\ mg = last.before

\* No ARN is desired and the list holds an entry without one: found.
C19_Witness ==
  /\ Invoked("Observe")
  /\ adapter = KindAttachment /\ RightKind
  /\ OneCall /\ last.calls[1].err = NilError
  /\ last.before.spec.PolicyARN = ""
  /\ Len(last.calls[1].out.AttachedPolicies) = 2
  /\ last.calls[1].out.AttachedPolicies[2].PolicyArn = Nil
  /\ last.result = ExternalObservation(TRUE, TRUE)

\* C20: whenever Observe of the attachment adapter returns an error (wrong
\* kind, failed list request, failed late-initialization write) or
\* exists=false, the object's conditions and its status.atProvider are what
\* they were before the call; Available and the observed policy ARN are
\* written only by an Observe that returns exists=true.
C20_ObserveFrame ==
  (Invoked("Observe") /\ adapter = KindAttachment) =>
    /\ (last.err # NilError \/ ~last.result.ResourceExists) =>
         /\ mg.conditions = last.before.conditions
         /\ RightKind => mg.atProvider = last.before.atProvider
         /\ ~RightKind => mg = last.before
    /\ last.result.ResourceExists =>
         /\ last.err = NilError
         /\ Readiness(mg.conditions) = {Available}
         /\ mg.atProvider = [AttachedPolicyARN |-> last.before.spec.PolicyARN]

\* The attachment is gone: Observe reports so and leaves the Deleting
\* condition and the ARN recorded by an earlier Observe in place.
C20_Witness ==
  /\ Invoked("Observe")
  /\ adapter = KindAttachment /\ RightKind
  /\ last.result = ExternalObservation(FALSE, FALSE)
  /\ last.err = NilError
  /\ OneCall /\ last.calls[1].err = NilError
  /\ Readiness(mg.conditions) = {Deleting}
  /\ mg.atProvider.AttachedPolicyARN # ""

\* C21: DeepCopy of a Secret, SecretList, SecretSpec, SecretStatus,
\* SecretParameters, SecretObservation or SecretSelector returns nil for a
\* nil receiver and otherwise a pointer to a new value equal to the original
\* (every pointer, slice and map inside it nil exactly when it is nil in the
\* original, and leading to an equal value otherwise) that shares no storage
\* with it: writing to anything the original leads to leaves what the copy
\* leads to as it was, and writing to anything DeepCopy made leaves what the
\* original leads to as it was.
C21_DeepCopyIsDeep ==
  touched # "before" =>
    /\ (copy = 0) <=> (original = 0)
    /\ original # 0 => copy \in CellsMade
    /\ touched \in {"copied", "original"} => Read(heap, copy) = want
    /\ touched \in {"copied", "copy"} => Read(heap, original) = want

\* Parameters with tags were copied and a tag of the copy was changed.
C21_Witness ==
  /\ touched = "copy"
  /\ original # 0
  /\ heap[original].kind = "SecretParameters"
  /\ heap[original].v.Tags # 0
  /\ Len(heap[heap[original].v.Tags].v) > 0
  /\ heap[copy].v.Tags # 0
  /\ heap[heap[copy].v.Tags].written

====
